---- MODULE Spec2Model ----
(***************************************************************************)
(* Model of the IMDb top-chart scraper: the CSV and PostgreSQL item        *)
(* pipelines (imdb_scraper/pipelines.py), the user-agent and proxy/retry   *)
(* downloader middlewares (imdb_scraper/middlewares.py) and the two-phase  *)
(* spider (imdb_scraper/spiders/imdb_top_bs.py).                           *)
(***************************************************************************)
EXTENDS Integers, Sequences, FiniteSets, TLC

\* ------------------------------------------------------------------------
\* Bounds of the model
\* ------------------------------------------------------------------------
\* Number of process_item calls explored in the sink specification.
MaxWrites == 4

\* Number of entries of the index listing explored in the crawl specification.
MaxItems == 2

\* Value at which the history counter of resubmissions made by
\* process_exception stops counting.
MaxResubmits == 1

\* Number of items written to the CSV files per run in the file-sink
\* specification.
MaxRows == 3

\* Inputs of the spider's functions applied on their own: longest index
\* listing, longest cast section, largest hour and minute components of a
\* duration.
MaxListing == 52

MaxCast == 4

MaxHours == 2

MaxMinutes == 59

\* Number of detail requests the downloader gets to send in the
\* specification with a populated proxy pool; the others stay scheduled.
MaxRouted == 1

\* Number of items sent down both pipelines in the specification of the
\* pipeline chain on arbitrary items.
MaxChain == 3

\* ------------------------------------------------------------------------
\* Values
\* ------------------------------------------------------------------------
\* Optional values: Python's None / SQL NULL is the empty tuple, a present
\* value v is the one-element tuple <<v>>.
None == <<>>

Some(v) == <<v>>

\* Column width of peliculas.titulo and actores.nombre: sa.String(255).
VarcharLen == 255

\* Strings are kept abstract; only their length matters to the database.
\* "TLong" and "ALong" stand for a title / an actor name of 256 characters.
StrLen(s) == IF s \in {"TLong", "ALong"} THEN 256 ELSE 2

Titles == {"T1", "T2", "TLong"}
ActorNames == {"A1", "ALong"}
Years == {None, Some(1994)}
\* rating is kept in tenths (93 = 9.3).
Payloads ==
    { [rating |-> Some(93), duration |-> Some(142), metascore |-> Some(80)],
      [rating |-> Some(87), duration |-> None, metascore |-> None] }

\* items.py: MovieItem and ActorItem.
MovieItem(t, y, p) ==
    [kind |-> "MovieItem", title |-> t, year |-> y, rating |-> p.rating,
     duration |-> p.duration, metascore |-> p.metascore]

ActorItem(t, a, pos) ==
    [kind |-> "ActorItem", movie_title |-> t, actor_name |-> a,
     position_order |-> pos]

MovieItems == { MovieItem(t, y, p) : t \in Titles, y \in Years, p \in Payloads }

ActorItems == { ActorItem(t, a, pos) : t \in Titles, a \in ActorNames, pos \in 1..2 }

\* ------------------------------------------------------------------------
\* State
\* ------------------------------------------------------------------------
VARIABLES
    session,     \* "closed" | "open": PostgresPipeline.session
    peliculas,   \* table peliculas as the session's transaction sees it
    actores,     \* table actores as the session's transaction sees it
    committed,   \* the two tables as of the last COMMIT
    seq,         \* the autoincrement sequences of the two id columns
    outcome,     \* what the last PostgresPipeline.process_item did
    returned,    \* what the last process_item call returned
    nWrites,     \* number of process_item calls so far
    catalogLog,  \* history: per (title, year), the payloads written, in order
    runWritten,  \* history: ids of the rows inserted without error in this run
    phase,       \* "idle" | "running" | "closed": the crawl
    proxies,     \* MixedProxyMiddleware.proxies (settings.PROXIES)
    current_proxy, \* MixedProxyMiddleware.current_proxy
    req,         \* the requests: 0 is the index fetch, i >= 1 the detail fetch of entry i
    gave_up,     \* requests the retry machinery reported as given up
    emitted,     \* per detail request, the items its callback yielded, in order
    ua,          \* RandomUserAgentMiddleware.ua: "unset" | "primary" | "fallback"
    log,         \* what the proxy middleware has logged
    csv_state,   \* CsvExportPipeline: "new" | "open" | "closed"
    movie_file,  \* lines of data/peliculas.csv
    actor_file,  \* lines of data/actores.csv
    csv_written, \* history: the items CsvExportPipeline received since open_spider
    delivered,   \* per detail request, how many of its items went down the pipelines
    handed,      \* history: per pipeline, the items it received, in order
    fn_in,       \* input drawn for a function of the spider applied on its own
    fn_out       \* result of that application

sinkVars == <<session, peliculas, actores, committed, seq, outcome, returned,
              nWrites, catalogLog, runWritten>>

crawlVars == <<phase, proxies, current_proxy, req, gave_up, emitted, ua, log>>

fileVars == <<csv_state, movie_file, actor_file, csv_written>>

pipeVars == <<delivered, handed>>

fnVars == <<fn_in, fn_out>>

vars == <<session, peliculas, actores, committed, seq, outcome, returned,
          nWrites, catalogLog, runWritten,
          phase, proxies, current_proxy, req, gave_up, emitted, ua, log,
          csv_state, movie_file, actor_file, csv_written,
          delivered, handed, fn_in, fn_out>>

Keys == Titles \X Years

PayloadOf(r) == [rating |-> r.rating, duration |-> r.duration, metascore |-> r.metascore]

\* PostgresPipeline.__init__ / _setup_tables: both tables exist and are empty.
SinkInit ==
    /\ session = "closed"
    /\ peliculas = {}
    /\ actores = {}
    /\ committed = [peliculas |-> {}, actores |-> {}]
    /\ seq = [peliculas |-> 1, actores |-> 1]
    /\ outcome = "none"
    /\ returned = None
    /\ nWrites = 0
    /\ catalogLog = [k \in Keys |-> <<>>]
    /\ runWritten = [peliculas |-> {}, actores |-> {}]

\* ------------------------------------------------------------------------
\* PostgresPipeline
\* ------------------------------------------------------------------------
\* session.rollback(): the session's transaction spans every statement since
\* open_spider (or since the previous rollback); flush() does not commit.
\* Rolling back restores both tables to the last committed state.  Sequences
\* are not transactional.
Rollback ==
    /\ peliculas' = committed.peliculas
    /\ actores' = committed.actores

\* UniqueConstraint("titulo", "anio"): PostgreSQL treats NULLs as distinct, so
\* a row with anio NULL never conflicts with another row.
Conflicts(t, y) ==
    { r \in peliculas : r.titulo = t /\ y # None /\ r.anio = y }

\* pg_insert(...).on_conflict_do_nothing(index_elements=["titulo", "anio"])
_insert_movie(item) ==
    IF StrLen(item.title) > VarcharLen
    THEN \* DataError: value too long for character varying(255)
         /\ Rollback
         /\ outcome' = "error"
         /\ UNCHANGED <<seq, runWritten>>
    ELSE IF Conflicts(item.title, item.year) # {}
    THEN \* rowcount == 0: nothing is written
         /\ outcome' = "conflict"
         /\ UNCHANGED <<peliculas, actores, seq, runWritten>>
    ELSE /\ peliculas' = peliculas \cup
                { [id |-> seq.peliculas, titulo |-> item.title, anio |-> item.year,
                   calificacion |-> item.rating, duracion |-> item.duration,
                   metascore |-> item.metascore] }
         /\ seq' = [seq EXCEPT !.peliculas = @ + 1]
         /\ runWritten' = [runWritten EXCEPT !.peliculas = @ \cup {seq.peliculas}]
         /\ outcome' = "inserted"
         /\ UNCHANGED actores

\* Variant of _insert_actor in which the lookup miss is handled like a failed
\* insert (logged and rolled back) instead of returning early.
_insert_actor_miss_rolls_back(item) ==
    LET matches == { m \in peliculas : m.titulo = item.movie_title } IN
    IF matches = {} \/ StrLen(item.actor_name) > VarcharLen
    THEN /\ Rollback
         /\ outcome' = IF matches = {} THEN "missing" ELSE "error"
         /\ UNCHANGED <<seq, runWritten>>
    ELSE \E movie \in matches :
         /\ actores' = actores \cup
                { [id |-> seq.actores, pelicula_id |-> movie.id,
                   nombre |-> item.actor_name,
                   posicion_orden |-> item.position_order] }
         /\ seq' = [seq EXCEPT !.actores = @ + 1]
         /\ runWritten' = [runWritten EXCEPT !.actores = @ \cup {seq.actores}]
         /\ outcome' = "inserted"
         /\ UNCHANGED peliculas

\* Variant of _insert_actor whose lookup has lost its where clause: the cast
\* row is attached to whatever catalog row comes first.
_insert_actor_any_movie(item) ==
    IF peliculas = {}
    THEN /\ outcome' = "missing"
         /\ UNCHANGED <<peliculas, actores, seq, runWritten>>
    ELSE \E movie \in peliculas :
         IF StrLen(item.actor_name) > VarcharLen
         THEN /\ Rollback
              /\ outcome' = "error"
              /\ UNCHANGED <<seq, runWritten>>
         ELSE /\ actores' = actores \cup
                     { [id |-> seq.actores, pelicula_id |-> movie.id,
                        nombre |-> item.actor_name,
                        posicion_orden |-> item.position_order] }
              /\ seq' = [seq EXCEPT !.actores = @ + 1]
              /\ runWritten' = [runWritten EXCEPT !.actores = @ \cup {seq.actores}]
              /\ outcome' = "inserted"
              /\ UNCHANGED peliculas

\* select(movies_table.c.id).where(titulo == movie_title).first(): without an
\* ORDER BY any matching row may come first.
_insert_actor(item) ==
    LET matches == { m \in peliculas : m.titulo = item.movie_title } IN
    IF matches = {}
    THEN \* logger.warning(...); return
         /\ outcome' = "missing"
         /\ UNCHANGED <<peliculas, actores, seq, runWritten>>
    ELSE \E movie \in matches :
         IF StrLen(item.actor_name) > VarcharLen
         THEN /\ Rollback
              /\ outcome' = "error"
              /\ UNCHANGED <<seq, runWritten>>
         ELSE /\ actores' = actores \cup
                     { [id |-> seq.actores, pelicula_id |-> movie.id,
                        nombre |-> item.actor_name,
                        posicion_orden |-> item.position_order] }
              /\ seq' = [seq EXCEPT !.actores = @ + 1]
              /\ runWritten' = [runWritten EXCEPT !.actores = @ \cup {seq.actores}]
              /\ outcome' = "inserted"
              /\ UNCHANGED peliculas

\* PostgresPipeline.process_item: dispatch on the item's type; an item of
\* another type is returned untouched.
process_item(item) ==
    /\ IF item.kind = "MovieItem"
       THEN _insert_movie(item)
       ELSE IF item.kind = "ActorItem"
       THEN _insert_actor(item)
       ELSE /\ outcome' = "ignored"
            /\ UNCHANGED <<peliculas, actores, seq, runWritten>>
    /\ catalogLog' =
         IF item.kind = "MovieItem"
         THEN [catalogLog EXCEPT ![<<item.title, item.year>>] = Append(@, PayloadOf(item))]
         ELSE catalogLog
    /\ returned' = item
    /\ nWrites' = nWrites + 1
    /\ UNCHANGED <<session, committed>>
    /\ UNCHANGED crawlVars

\* open_spider: a new session (and with it a new transaction).
open_spider ==
    /\ session = "closed"
    /\ session' = "open"
    /\ peliculas' = committed.peliculas
    /\ actores' = committed.actores
    /\ runWritten' = [peliculas |-> {}, actores |-> {}]
    /\ outcome' = "none"
    /\ returned' = None
    /\ UNCHANGED <<committed, seq, nWrites, catalogLog>>
    /\ UNCHANGED <<crawlVars, fileVars, pipeVars, fnVars>>

\* close_spider: session.commit(); session.close()
close_spider ==
    /\ session = "open"
    /\ session' = "closed"
    /\ committed' = [peliculas |-> peliculas, actores |-> actores]
    /\ UNCHANGED <<peliculas, actores, seq, outcome, returned, nWrites,
                   catalogLog, runWritten>>
    /\ UNCHANGED <<crawlVars, fileVars, pipeVars, fnVars>>

WriteCatalogEntry ==
    /\ session = "open"
    /\ nWrites < MaxWrites
    /\ \E item \in MovieItems : process_item(item)
    /\ UNCHANGED <<fileVars, pipeVars, fnVars>>

WriteCastEntry ==
    /\ session = "open"
    /\ nWrites < MaxWrites
    /\ \E item \in ActorItems : process_item(item)
    /\ UNCHANGED <<fileVars, pipeVars, fnVars>>

\* ------------------------------------------------------------------------
\* CsvExportPipeline
\* ------------------------------------------------------------------------
\* An item that is neither a MovieItem nor an ActorItem.
OtherItem == [kind |-> "Item"]

\* csv.DictWriter writes None as the empty field and any other value as its
\* str().
Cell(v) == IF v = None THEN "" ELSE ToString(v[1])

\* fieldnames of the two writers, as writeheader() writes them.
movie_header == <<"title", "year", "rating", "duration", "metascore">>

actor_header == <<"movie_title", "actor_name", "position_order">>

\* The rows writerow() writes for an item.
movie_row(item) ==
    <<item.title, Cell(item.year), Cell(item.rating), Cell(item.duration),
      Cell(item.metascore)>>

actor_row(item) ==
    <<item.movie_title, item.actor_name, ToString(item.position_order)>>

\* Variant of open_spider that opens the two files in append mode ("a").
csv_open_spider_append ==
    /\ csv_state \in {"new", "closed"}
    /\ csv_state' = "open"
    /\ movie_file' = Append(movie_file, movie_header)
    /\ actor_file' = Append(actor_file, actor_header)
    /\ csv_written' = <<>>

\* CsvExportPipeline.open_spider: open(path, "w") truncates the files of an
\* earlier run, writeheader() writes the first line.  A closed pipeline
\* stands for the pipeline object of the next run over the same directory.
csv_open_spider ==
    /\ csv_state \in {"new", "closed"}
    /\ csv_state' = "open"
    /\ movie_file' = <<movie_header>>
    /\ actor_file' = <<actor_header>>
    /\ csv_written' = <<>>

\* CsvExportPipeline.close_spider
csv_close_spider ==
    /\ csv_state = "open"
    /\ csv_state' = "closed"
    /\ UNCHANGED <<movie_file, actor_file, csv_written>>

\* CsvExportPipeline.process_item: before open_spider the writers are None
\* and the item is passed on untouched.
csv_process_item(item) ==
    /\ csv_state \in {"new", "open"}
    /\ movie_file' = IF csv_state = "open" /\ item.kind = "MovieItem"
                     THEN Append(movie_file, movie_row(item)) ELSE movie_file
    /\ actor_file' = IF csv_state = "open" /\ item.kind = "ActorItem"
                     THEN Append(actor_file, actor_row(item)) ELSE actor_file
    /\ csv_written' = IF csv_state = "open" THEN Append(csv_written, item)
                      ELSE csv_written
    /\ UNCHANGED csv_state

\* What process_item returns when the return statement sits inside the two
\* branches: an item of another type falls off the end of the method, which
\* returns Python's None (here an item of type NoneType).
csv_process_item_returns_in_branch(item) ==
    IF item.kind \in {"MovieItem", "ActorItem"} THEN item ELSE [kind |-> "NoneType"]

\* CsvExportPipeline.process_item: "return item", on every path.
csv_process_item_returns(item) == item

FileItems == MovieItems \cup ActorItems \cup {OtherItem}

FileOpen == csv_open_spider /\ UNCHANGED <<sinkVars, crawlVars, pipeVars, fnVars>>

FileWrite ==
    /\ Len(csv_written) < MaxRows
    /\ \E item \in FileItems : csv_process_item(item)
    /\ UNCHANGED <<sinkVars, crawlVars, pipeVars, fnVars>>

FileClose == csv_close_spider /\ UNCHANGED <<sinkVars, crawlVars, pipeVars, fnVars>>

\* ------------------------------------------------------------------------
\* The crawl: requests, downloader middleware, spider callbacks
\* ------------------------------------------------------------------------
\* settings.py: RETRY_TIMES
RETRY_TIMES == 5

\* settings.py: HTTPERROR_ALLOWED_CODES: responses with these statuses are
\* passed to the spider callback instead of being filtered out.
HTTPERROR_ALLOWED_CODES == {403, 429}

ReqIds == 0..MaxItems

DetailIds == 1..MaxItems

\* settings.py: PROXIES = [] (the pool as shipped; the populated list is
\* commented out).
PROXIES == {}

\* A request that does not exist yet.  user_agent is its User-Agent header
\* (by the list it was drawn from), proxy its meta["proxy"]; fresh_route is
\* history: whether _set_proxy gave the request a route since it was last
\* scheduled by _retry.
NoRequest ==
    [st |-> "NONE", retry_times |-> 0, dont_filter |-> FALSE, proxy |-> None,
     resubmits |-> 0, response |-> None, parsed |-> FALSE, meta |-> None,
     user_agent |-> None, fresh_route |-> FALSE]

\* An ISO-8601 duration string, kept as its pieces in order: a piece is a
\* letter with the run of digits that stands right before it, if any
\* ("PT2H22M" is P, T, 2H, 22M).
Piece(num, ch) == [num |-> num, ch |-> ch]

IsoToken(h, m) ==
    <<Piece(None, "P"), Piece(None, "T")>>
        \o (IF h # None THEN <<Piece(h, "H")>> ELSE <<>>)
        \o (IF m # None THEN <<Piece(m, "M")>> ELSE <<>>)

\* Entry i of the JSON-LD ItemList.  Entry 1 carries a rating and a duration
\* ("PT2H22M"), the others have neither.
ListingEntry(i) ==
    IF i = 1
    THEN [name |-> Some("T1"), url |-> 1, aggregateRating |-> Some(93),
          duration |-> Some(IsoToken(Some(2), Some(22)))]
    ELSE [name |-> Some("T2"), url |-> i, aggregateRating |-> None, duration |-> None]

\* An entry without "name": movie["name"] raises KeyError.
BadEntry(i) == [name |-> None, url |-> i, aggregateRating |-> None, duration |-> None]

\* Bodies of the index page: without the JSON-LD block ("noblock"), with a
\* block that is not JSON ("badjson"), with JSON that has no itemListElement
\* ("nokey"), with a list of n well-formed entries ("list"), or with a list
\* whose entry n + 1 lacks "item", "name" or "url" ("badentry").
IndexPages ==
    { [kind |-> k, n |-> 0] : k \in {"noblock", "badjson", "nokey"} }
        \cup { [kind |-> "list", n |-> n] : n \in 0..MaxItems }
        \cup { [kind |-> "badentry", n |-> n] : n \in 0..(MaxItems - 1) }

\* Bodies of a detail page: release date, metascore box and cast section.
\* A cast item is the actor's name, or None when the item has no name link.
DetailPages ==
    { [releasedate |-> Some(1994), metascore |-> Some(80),
       cast |-> <<Some("A1"), None, Some("A3"), Some("A4")>>],
      [releasedate |-> None, metascore |-> None, cast |-> <<>>] }

\* The body served with a 403/429: no JSON-LD block, no detail markup.
BlockedIndexPage == [kind |-> "noblock", n |-> 0]

BlockedDetailPage == [releasedate |-> None, metascore |-> None, cast |-> <<>>]

PagesFor(i, status) ==
    IF status = 200
    THEN (IF i = 0 THEN IndexPages ELSE DetailPages)
    ELSE (IF i = 0 THEN {BlockedIndexPage} ELSE {BlockedDetailPage})

CrawlInit ==
    /\ phase = "idle"
    /\ proxies = {}
    /\ current_proxy = None
    /\ req = [i \in ReqIds |-> NoRequest]
    /\ gave_up = {}
    /\ emitted = [i \in DetailIds |-> <<>>]
    /\ ua = "unset"
    /\ log = [empty_pool_warnings |-> 0, ip_lookup |-> "none"]

\* CsvExportPipeline.__init__: no file is open, no writer exists.
FileInit ==
    /\ csv_state = "new"
    /\ movie_file = <<>>
    /\ actor_file = <<>>
    /\ csv_written = <<>>

\* Nothing has been yielded to the item pipelines.
PipeInit ==
    /\ delivered = [i \in DetailIds |-> 0]
    /\ handed = [csv |-> <<>>, postgres |-> <<>>]

FnInit ==
    /\ fn_in = None
    /\ fn_out = None

Init == SinkInit /\ CrawlInit /\ FileInit /\ PipeInit /\ FnInit

\* Engine start.  RandomUserAgentMiddleware.__init__ keeps a UserAgent()
\* object ("primary") or, when building it raises, the embedded list
\* ("fallback"); the identity source stays as it is found here for the whole
\* run.  MixedProxyMiddleware.__init__ reads settings.PROXIES and warns when
\* the list is empty.  The spider's start_urls become the first request
\* (Scrapy builds start requests with dont_filter=True).
start_requests(pool) ==
    /\ phase = "idle"
    /\ phase' = "running"
    /\ \E source \in {"primary", "fallback"} : ua' = source
    /\ proxies' = pool
    /\ log' = [log EXCEPT !.empty_pool_warnings = IF pool = {} THEN @ + 1 ELSE @]
    /\ current_proxy' = None
    /\ req' = [req EXCEPT ![0] = [NoRequest EXCEPT !.st = "PENDING", !.dont_filter = TRUE]]
    /\ UNCHANGED <<gave_up, emitted>>
    /\ UNCHANGED <<sinkVars, fileVars, pipeVars, fnVars>>

\* Variant of _choose_proxy that falls back to a default route instead of
\* None when the pool is empty.
_choose_proxy_default_route ==
    IF proxies = {} THEN {Some("direct")} ELSE { Some(p) : p \in proxies }

\* _choose_proxy: random.choice(self.proxies) if self.proxies else None
_choose_proxy == IF proxies = {} THEN {None} ELSE { Some(p) : p \in proxies }

\* _set_proxy: the request's meta["proxy"] after the call, for the choice made.
_set_proxy_meta(old, choice) == IF choice # None THEN choice ELSE old

\* Variant of _set_proxy that records only the first route ever chosen
\* ("if self.current_proxy is None" instead of "if proxy != self.current_proxy").
_set_proxy_current_first_only(choice) ==
    IF choice # None /\ current_proxy = None THEN choice ELSE current_proxy

\* _set_proxy: self.current_proxy after the call, for the choice made.
_set_proxy_current(choice) ==
    IF choice # None /\ choice # current_proxy THEN choice ELSE current_proxy

\* _set_proxy: what is logged; the public IP is looked up only when the
\* route changes, and the lookup succeeds ("ok": the new IP is logged) or
\* raises ("failed": only the change of proxy is logged).
_set_proxy_log(choice, lookup) ==
    IF choice # None /\ choice # current_proxy
    THEN [log EXCEPT !.ip_lookup = lookup]
    ELSE log

\* RandomUserAgentMiddleware.process_request:
\* request.headers.setdefault("User-Agent", ua)
_set_user_agent(old) == IF old = None THEN Some(ua) ELSE old

Bump(n) == IF n < MaxResubmits THEN n + 1 ELSE n

\* Number of times the request has been sent so far: once per scheduling, that
\* is the first one, one per retry made by _retry and one per resubmission
\* made by process_exception (a lower bound once resubmits stops counting);
\* it is no longer known once the request has been released.
Attempts(r) ==
    IF r.st = "NONE" \/ r.parsed THEN 0
    ELSE IF r.st = "PENDING" THEN r.retry_times + r.resubmits
    ELSE r.retry_times + r.resubmits + 1

\* A scheduled request is sent.  RandomUserAgentMiddleware.process_request
\* (priority 400) sets the User-Agent header unless the request has one;
\* MixedProxyMiddleware.process_request (410) assigns a proxy only when the
\* request's meta has none yet.
process_request(i) ==
    /\ phase = "running"
    /\ req[i].st = "PENDING"
    /\ \E choice \in (IF req[i].proxy = None THEN _choose_proxy ELSE {None}) :
       \E lookup \in {"ok", "failed"} :
         /\ req' = [req EXCEPT ![i].st = "IN_FLIGHT",
                               ![i].user_agent = _set_user_agent(@),
                               ![i].proxy = _set_proxy_meta(@, choice),
                               ![i].fresh_route =
                                   IF req[i].proxy = None THEN choice # None ELSE @]
         /\ current_proxy' = _set_proxy_current(choice)
         /\ log' = _set_proxy_log(choice, lookup)
    /\ UNCHANGED <<phase, proxies, gave_up, emitted, ua>>
    /\ UNCHANGED <<sinkVars, fileVars, pipeVars, fnVars>>

\* RetryMiddleware._retry as called from process_response: a copy of the
\* request with retry_times + 1 and dont_filter=True while the budget lasts
\* (the copy keeps the meta, the proxy included); None, after reporting the
\* request as given up, once retry_times would exceed RETRY_TIMES.
_retry_allowed(r) == r.retry_times + 1 <= RETRY_TIMES

\* MixedProxyMiddleware.process_response
process_response(i, status, page) ==
    /\ phase = "running"
    /\ req[i].st = "IN_FLIGHT"
    /\ IF status \in {403, 429}
       THEN IF _retry_allowed(req[i])
            THEN \* return self._retry(...): the copy is scheduled
                 /\ req' = [req EXCEPT ![i].st = "PENDING",
                                       ![i].retry_times = @ + 1,
                                       ![i].dont_filter = TRUE,
                                       ![i].fresh_route = FALSE]
                 /\ UNCHANGED gave_up
            ELSE \* _retry gave up and returned None: "or response" hands the
                 \* blocked response on; its status is in
                 \* HTTPERROR_ALLOWED_CODES, so it reaches the callback.
                 /\ req' = [req EXCEPT ![i].st = "TERMINAL_FAILURE",
                                       ![i].response =
                                           IF status \in HTTPERROR_ALLOWED_CODES
                                           THEN Some(page) ELSE None]
                 /\ gave_up' = gave_up \cup {i}
       ELSE /\ req' = [req EXCEPT ![i].st = "SUCCESS", ![i].response = Some(page)]
            /\ UNCHANGED gave_up
    /\ UNCHANGED <<phase, proxies, current_proxy, emitted, ua, log>>
    /\ UNCHANGED <<sinkVars, fileVars, pipeVars, fnVars>>

\* MixedProxyMiddleware.process_exception for TimeoutError, TCPTimedOutError
\* and ConnectionRefusedError: _set_proxy, then "return request".  The
\* returned request goes back to the scheduler as it is: retry_times is not
\* touched, and the scheduler's duplicate filter drops a request it has
\* already seen unless the request has dont_filter set.
process_exception(i) ==
    /\ phase = "running"
    /\ req[i].st = "IN_FLIGHT"
    /\ \E choice \in _choose_proxy :
       \E lookup \in {"ok", "failed"} :
         /\ req' = [req EXCEPT ![i].proxy = _set_proxy_meta(@, choice),
                               ![i].fresh_route = (choice # None) \/ @,
                               ![i].st = IF req[i].dont_filter
                                         THEN "PENDING" ELSE "DROPPED",
                               ![i].resubmits = IF req[i].dont_filter
                                                THEN Bump(@) ELSE @]
         /\ current_proxy' = _set_proxy_current(choice)
         /\ log' = _set_proxy_log(choice, lookup)
    /\ UNCHANGED <<phase, proxies, gave_up, emitted, ua>>
    /\ UNCHANGED <<sinkVars, fileVars, pipeVars, fnVars>>

\* re.search(r"(\d+)H", iso_val) and re.search(r"(\d+)M", iso_val): the
\* digits of the leftmost piece that has digits right before the letter ch,
\* None when there is no such piece.
re_search(ch, tok) ==
    LET hits == { j \in 1..Len(tok) : tok[j].ch = ch /\ tok[j].num # None } IN
    IF hits = {}
    THEN None
    ELSE tok[CHOOSE j \in hits : \A k \in hits : j <= k].num

\* Variant of _iso_to_minutes that returns the total as it is, zero included
\* ("return total" instead of "return total or None").
_iso_to_minutes_keeps_zero(iso_val) ==
    IF iso_val = None \/ iso_val = Some(<<>>)
    THEN None
    ELSE LET hrs == re_search("H", iso_val[1])
             mins == re_search("M", iso_val[1])
         IN Some((IF hrs # None THEN hrs[1] * 60 ELSE 0)
                  + (IF mins # None THEN mins[1] ELSE 0))

\* ImdbTopBsSpider._iso_to_minutes: "if not iso_val" covers None and the
\* empty string; "total or None" turns a total of 0 into None.
_iso_to_minutes(iso_val) ==
    IF iso_val = None \/ iso_val = Some(<<>>)
    THEN None
    ELSE LET hrs == re_search("H", iso_val[1])
             mins == re_search("M", iso_val[1])
             total == (IF hrs # None THEN hrs[1] * 60 ELSE 0)
                      + (IF mins # None THEN mins[1] ELSE 0)
         IN IF total = 0 THEN None ELSE Some(total)

\* ImdbTopBsSpider._extract_year
_extract_year(page) == page.releasedate

\* ImdbTopBsSpider._extract_actors: the first 3 cast items, numbered from 1
\* by their place in the section; an item without a name link is left out.
RECURSIVE CastFrom(_, _, _)
CastFrom(cast, pos, movie_title) ==
    IF pos > Len(cast) \/ pos > 3
    THEN <<>>
    ELSE (IF cast[pos] # None
          THEN <<ActorItem(movie_title, cast[pos][1], pos)>>
          ELSE <<>>) \o CastFrom(cast, pos + 1, movie_title)

_extract_actors(page, movie_title) == CastFrom(page.cast, 1, movie_title)

\* json.loads(script_tag.string)["itemListElement"] of a page that has the
\* list: page.n well-formed entries, followed by a malformed one on a
\* "badentry" page.
itemListElement(page) ==
    [j \in 1..(IF page.kind = "badentry" THEN page.n + 1 ELSE page.n) |->
        IF j <= page.n THEN ListingEntry(j) ELSE BadEntry(j)]

\* [:50]
TopK == 50

\* The body of parse's loop for one entry: the request response.follow
\* builds (its url, its meta and its User-Agent header).
follow(movie) ==
    [url |-> movie.url,
     meta |-> [title |-> movie.name[1], rating |-> movie.aggregateRating,
               duration_iso |-> movie.duration],
     user_agent |-> Some("primary")]

\* parse's loop over the entries from the j-th on.  The callback is a
\* generator: an exception raised for an entry (KeyError for a missing
\* "name"; the error of UserAgent() when the identity source is unavailable)
\* ends it after the requests of the entries before have been yielded.
RECURSIVE yield_from(_, _, _)
yield_from(items, j, source) ==
    IF j > Len(items) THEN <<>>
    ELSE IF items[j].name = None \/ source # "primary" THEN <<>>
    ELSE <<follow(items[j])>> \o yield_from(items, j + 1, source)

\* ImdbTopBsSpider.parse from the itemListElement list on: the detail
\* requests yielded, in order, with the identity source as given.
parse_tasks(items, source) ==
    yield_from(SubSeq(items, 1, IF Len(items) < TopK THEN Len(items) ELSE TopK),
               1, source)

\* Variant of parse_requests that, when the JSON-LD block is missing, falls
\* back to following the first chart entry instead of returning.
parse_requests_fallback(page) ==
    LET tasks == IF page.kind \in {"list", "badentry"}
                 THEN parse_tasks(itemListElement(page), ua)
                 ELSE IF page.kind = "noblock"
                 THEN <<follow(ListingEntry(1))>>
                 ELSE <<>>
    IN [i \in ReqIds |->
          IF i \in 1..Len(tasks)
          THEN [NoRequest EXCEPT !.st = "PENDING",
                                 !.meta = Some(tasks[i].meta),
                                 !.user_agent = tasks[i].user_agent]
          ELSE req[i]]

\* ImdbTopBsSpider.parse: the detail requests the index page yields.
\* response.follow builds them with dont_filter=False.  Without the ItemList
\* block, or with a block that is not JSON or has no itemListElement, nothing
\* is yielded.
parse_requests(page) ==
    LET tasks == IF page.kind \in {"list", "badentry"}
                 THEN parse_tasks(itemListElement(page), ua)
                 ELSE <<>>
    IN [i \in ReqIds |->
          IF i \in 1..Len(tasks)
          THEN [NoRequest EXCEPT !.st = "PENDING",
                                 !.meta = Some(tasks[i].meta),
                                 !.user_agent = tasks[i].user_agent]
          ELSE req[i]]

\* Once its callback has run, a request object is no longer referenced: its
\* meta (retry_times, proxy) and flags are gone; what the run remembers of it
\* is how the fetch ended and the response the callback saw.
Released(r) ==
    [NoRequest EXCEPT !.st = r.st, !.response = r.response, !.meta = r.meta,
                      !.parsed = TRUE]

\* The index callback runs on the response handed to the spider.
parse ==
    /\ phase = "running"
    /\ req[0].response # None
    /\ ~req[0].parsed
    /\ req' = [parse_requests(req[0].response[1]) EXCEPT ![0] = Released(req[0])]
    /\ UNCHANGED <<phase, proxies, current_proxy, gave_up, emitted, ua, log>>
    /\ UNCHANGED <<sinkVars, fileVars, pipeVars, fnVars>>

\* Variant of parse_movie that yields the ActorItems before the MovieItem.
parse_movie_items_cast_first(meta, page) ==
    _extract_actors(page, meta.title)
        \o <<[kind |-> "MovieItem", title |-> meta.title, year |-> _extract_year(page),
              rating |-> meta.rating, duration |-> _iso_to_minutes(meta.duration_iso),
              metascore |-> page.metascore]>>

\* ImdbTopBsSpider.parse_movie: the items yielded for one detail response.
parse_movie_items(meta, page) ==
    <<[kind |-> "MovieItem", title |-> meta.title, year |-> _extract_year(page),
       rating |-> meta.rating, duration |-> _iso_to_minutes(meta.duration_iso),
       metascore |-> page.metascore]>>
        \o _extract_actors(page, meta.title)

parse_movie(i) ==
    /\ phase = "running"
    /\ req[i].response # None
    /\ ~req[i].parsed
    /\ req' = [req EXCEPT ![i] = Released(req[i])]
    /\ emitted' = [emitted EXCEPT ![i] = parse_movie_items(req[i].meta[1], req[i].response[1])]
    /\ UNCHANGED <<phase, proxies, current_proxy, gave_up, ua, log>>
    /\ UNCHANGED <<sinkVars, fileVars, pipeVars, fnVars>>

\* Nothing is scheduled, in flight or waiting for its callback.
Idle ==
    \A i \in ReqIds :
        /\ req[i].st \notin {"PENDING", "IN_FLIGHT"}
        /\ (req[i].response # None => req[i].parsed)

\* The engine closes the spider once it is idle.
spider_closed ==
    /\ phase = "running"
    /\ Idle
    /\ phase' = "closed"
    /\ UNCHANGED <<proxies, current_proxy, req, gave_up, emitted, ua, log>>
    /\ UNCHANGED <<sinkVars, fileVars, pipeVars, fnVars>>

StartCrawl == start_requests(PROXIES)

Download == \E i \in ReqIds : process_request(i)

Response == \E i \in ReqIds : \E status \in {200, 403, 429} :
                \E page \in PagesFor(i, status) : process_response(i, status, page)

ConnectionError == \E i \in ReqIds : process_exception(i)

ParseMovie == \E i \in DetailIds : parse_movie(i)

CrawlNext ==
    \/ StartCrawl
    \/ Download
    \/ Response
    \/ ConnectionError
    \/ parse
    \/ ParseMovie
    \/ spider_closed

CrawlSpec == Init /\ [][CrawlNext]_vars

\* The engine keeps taking steps while one is possible: a scheduled request
\* is sent, a sent request gets its response or its error (DOWNLOAD_TIMEOUT
\* bounds the wait), a delivered response gets its callback.
FairCrawlSpec == CrawlSpec /\ WF_vars(CrawlNext)

\* ------------------------------------------------------------------------
\* Properties of the crawl
\* ------------------------------------------------------------------------
\* C6: no request is sent more often than the first attempt plus RETRY_TIMES
\* retries, retries after 403/429 and resubmissions after connection errors
\* counted alike.
C6_RetryBudget ==
    \A i \in ReqIds : Attempts(req[i]) <= RETRY_TIMES + 1

\* C7: a detail request whose retry budget ran out on block signals yields no
\* MovieItem and no ActorItem.
C7_TerminalFailureEmitsNothing ==
    \A i \in DetailIds :
        req[i].st = "TERMINAL_FAILURE" => emitted[i] = <<>>

WorkItems == { i \in DetailIds : req[i].st # "NONE" }

TerminallyFailed == { i \in DetailIds : req[i].st = "TERMINAL_FAILURE" }

\* C8: when the run has closed, every work item of the index other than the
\* K whose fetch failed terminally has yielded its MovieItem, and exactly
\* those K are reported as given up.
C8_PartialFailure ==
    phase = "closed" =>
        /\ \A i \in WorkItems \ TerminallyFailed :
              \E j \in 1..Len(emitted[i]) : emitted[i][j].kind = "MovieItem"
        /\ gave_up \cap DetailIds = TerminallyFailed

\* C9: every request that has been sent eventually ends in SUCCESS or
\* TERMINAL_FAILURE, and a started run eventually closes.
C9_EveryRequestTerminates ==
    /\ \A i \in ReqIds :
          (req[i].st = "IN_FLIGHT") ~> (req[i].st \in {"SUCCESS", "TERMINAL_FAILURE"})
    /\ (phase = "running") ~> (phase = "closed")

\* C10: when the index page has no JSON-LD ItemList block, or the block is
\* not valid JSON (or has no itemListElement), the index callback yields no
\* work item: no detail request exists at any later time and nothing is
\* emitted.
C10_IndexFormatFailureSchedulesNothing ==
    ( /\ req[0].parsed
      /\ req[0].response[1].kind \in {"noblock", "badjson", "nokey"} )
    => \A i \in DetailIds : req[i].st = "NONE" /\ emitted[i] = <<>>

\* C10 witness: the run has closed after an index page whose block was not
\* valid JSON, served with status 200.
C10_Witness ==
    /\ phase = "closed"
    /\ req[0].st = "SUCCESS"
    /\ req[0].response[1].kind = "badjson"

SinkNext ==
    \/ open_spider
    \/ WriteCatalogEntry
    \/ WriteCastEntry
    \/ close_spider

SinkSpec == Init /\ [][SinkNext]_vars

\* ------------------------------------------------------------------------
\* Properties of the relational sink
\* ------------------------------------------------------------------------
RowsOf(t, y) == { r \in peliculas : r.titulo = t /\ r.anio = y }

\* C1: once a (title, year) with a present year (and a title the column can
\* hold) has been written twice, the catalog table holds exactly one row for
\* it and that row carries the rating, duration and metascore of the first of
\* those writes, whatever other writes happened in between or after.
C1_FirstWriterWins ==
    \A k \in Keys :
        (k[2] # None /\ StrLen(k[1]) <= VarcharLen /\ Len(catalogLog[k]) >= 2) =>
            /\ Cardinality(RowsOf(k[1], k[2])) = 1
            /\ \A r \in RowsOf(k[1], k[2]) :
                   [rating |-> r.calificacion, duration |-> r.duracion,
                    metascore |-> r.metascore] = catalogLog[k][1]

\* C2: the catalog table holds at most one row per natural key (title, year),
\* a key whose year is absent included.
C2_OneRowPerNaturalKey ==
    \A r1, r2 \in peliculas :
        (r1.titulo = r2.titulo /\ r1.anio = r2.anio) => r1 = r2

\* C3: a failed insert undoes only itself: after close_spider every catalog
\* and cast row that was inserted without error during the run is in the
\* committed tables.
C3_FailureContained ==
    session = "closed" =>
        /\ runWritten.peliculas \subseteq { r.id : r \in committed.peliculas }
        /\ runWritten.actores \subseteq { r.id : r \in committed.actores }

\* C4: a process_item call for an ActorItem whose movie_title matches no row
\* of peliculas changes neither table, neither the committed state, the
\* sequences nor the session, and does not take the error path; the state
\* every later write starts from is the one before the call.
C4_MissingReferenceIsNoOp ==
    [][ ( /\ nWrites' = nWrites + 1
          /\ returned'.kind = "ActorItem"
          /\ \A m \in peliculas : m.titulo # returned'.movie_title )
        => /\ UNCHANGED <<peliculas, actores, committed, seq, session, runWritten>>
           /\ outcome' = "missing" ]_vars

\* C4 witness: a cast write missed its catalog row while the transaction
\* holds uncommitted catalog rows.
C4_Witness ==
    /\ outcome = "missing"
    /\ peliculas # {}
    /\ peliculas # committed.peliculas

\* C5: no two rows of actores carry the same (pelicula_id, nombre,
\* posicion_orden), and no catalog row has more than 3 cast rows.
C5_CastWritesIdempotent ==
    /\ \A a1, a2 \in actores :
          ( /\ a1.pelicula_id = a2.pelicula_id
            /\ a1.nombre = a2.nombre
            /\ a1.posicion_orden = a2.posicion_orden ) => a1 = a2
    /\ \A m \in peliculas :
          Cardinality({ a \in actores : a.pelicula_id = m.id }) <= 3

\* ------------------------------------------------------------------------
\* The file sink on its own
\* ------------------------------------------------------------------------
FileNext ==
    \/ FileOpen
    \/ FileWrite
    \/ FileClose

FileSpec == Init /\ [][FileNext]_vars

\* The rows of the items of one kind among those written, in write order.
RowsWritten(kind) ==
    LET its == SelectSeq(csv_written, LAMBDA it : it.kind = kind) IN
    [j \in 1..Len(its) |->
        IF kind = "MovieItem" THEN movie_row(its[j]) ELSE actor_row(its[j])]

\* C15: once opened, peliculas.csv is the header line followed by one row
\* per MovieItem received since that open_spider, in the order received and
\* with repeated items repeated, and actores.csv likewise for the ActorItems;
\* nothing of an earlier run and no row of the other kind is in either file.
C15_FileSinkContent ==
    csv_state \in {"open", "closed"} =>
        /\ movie_file = <<movie_header>> \o RowsWritten("MovieItem")
        /\ actor_file = <<actor_header>> \o RowsWritten("ActorItem")

\* C15 witness: the same MovieItem written twice with an ActorItem between,
\* in a run that has been closed.
C15_Witness ==
    /\ csv_state = "closed"
    /\ Len(csv_written) = 3
    /\ csv_written[1].kind = "MovieItem"
    /\ csv_written[2].kind = "ActorItem"
    /\ csv_written[3] = csv_written[1]
    /\ Len(movie_file) = 3

\* ------------------------------------------------------------------------
\* The crawl feeding the two item pipelines
\* ------------------------------------------------------------------------
\* The next item a callback yielded goes down ITEM_PIPELINES:
\* CsvExportPipeline.process_item (300), then PostgresPipeline.process_item
\* (400) on the item the first returned.  The items of one callback are
\* taken in the order it yielded them; those of different callbacks
\* interleave freely.
Deliver(i) ==
    /\ phase = "running"
    /\ session = "open"
    /\ delivered[i] < Len(emitted[i])
    /\ LET item == emitted[i][delivered[i] + 1]
           passed == csv_process_item_returns(item)
       IN
         /\ csv_process_item(item)
         /\ process_item(passed)
         /\ handed' = [csv |-> Append(handed.csv, [of |-> i, item |-> item]),
                       postgres |-> Append(handed.postgres, [of |-> i, item |-> passed])]
    /\ delivered' = [delivered EXCEPT ![i] = @ + 1]
    /\ UNCHANGED fnVars

AllDelivered == \A i \in DetailIds : delivered[i] = Len(emitted[i])

\* The engine opens the pipelines, in ITEM_PIPELINES order, before the first
\* request is scheduled, and closes them after the spider has closed.
PipeOpenCsv == phase = "idle" /\ csv_state = "new" /\ FileOpen

PipeOpenPostgres == phase = "idle" /\ csv_state = "open" /\ open_spider

PipeStart == session = "open" /\ StartCrawl

PipeDeliver == \E i \in DetailIds : Deliver(i)

PipeSpiderClosed == AllDelivered /\ spider_closed

PipeClosePostgres == phase = "closed" /\ close_spider

PipeCloseCsv == phase = "closed" /\ session = "closed" /\ FileClose

PipelineNext ==
    \/ PipeOpenCsv
    \/ PipeOpenPostgres
    \/ PipeStart
    \/ Download
    \/ Response
    \/ ConnectionError
    \/ parse
    \/ ParseMovie
    \/ PipeDeliver
    \/ PipeSpiderClosed
    \/ PipeClosePostgres
    \/ PipeCloseCsv

PipelineSpec == Init /\ [][PipelineNext]_vars

\* The items of work item i are handed to a pipeline catalog entry first,
\* then cast entries by increasing position_order.
InOrder(h) ==
    \A k \in 1..Len(h) :
        h[k].item.kind = "ActorItem" =>
            /\ \E j \in 1..(k - 1) :
                  h[j].of = h[k].of /\ h[j].item.kind = "MovieItem"
            /\ \A j \in 1..(k - 1) :
                  (h[j].of = h[k].of /\ h[j].item.kind = "ActorItem")
                      => h[j].item.position_order < h[k].item.position_order

\* C11: in what each pipeline receives, the MovieItem of a work item comes
\* before every ActorItem of that work item and its ActorItems come by
\* increasing position_order, however the items of different work items
\* interleave; PostgresPipeline therefore finds the catalog row of every
\* cast entry it is handed.
C11_CatalogBeforeCast ==
    /\ InOrder(handed.csv)
    /\ InOrder(handed.postgres)
    /\ (handed.postgres # <<>> => outcome # "missing")

\* C11 witness: the run has closed after the items of two work items went
\* down the pipelines interleaved, a cast entry of the second between the
\* catalog entry and a cast entry of the first.
C11_Witness ==
    /\ phase = "closed"
    /\ Len(handed.postgres) >= 4
    /\ \E a, b, c \in 1..Len(handed.postgres) :
          /\ a < b /\ b < c
          /\ handed.postgres[a].of = 1 /\ handed.postgres[a].item.kind = "MovieItem"
          /\ handed.postgres[b].of = 2 /\ handed.postgres[b].item.kind = "ActorItem"
          /\ handed.postgres[c].of = 1 /\ handed.postgres[c].item.kind = "ActorItem"

\* ------------------------------------------------------------------------
\* The spider's functions applied on their own
\* ------------------------------------------------------------------------
\* An itemListElement list of n entries; entry bad (if any) has no "name".
Listing(n, bad) ==
    [j \in 1..n |-> IF j = bad THEN BadEntry(j) ELSE ListingEntry(j)]

ParseInputs ==
    { [fn |-> "parse", items |-> Listing(n, bad), source |-> source] :
        n \in 0..MaxListing, bad \in {0, 2}, source \in {"primary", "fallback"} }

\* Cast sections of up to MaxCast items, each with or without a name link.
RECURSIVE CastSections(_)
CastSections(n) ==
    IF n = 0 THEN { <<>> }
    ELSE LET shorter == CastSections(n - 1) IN
         shorter \cup { Append(c, a) : c \in { x \in shorter : Len(x) = n - 1 },
                                        a \in {None, Some("A1"), Some("A3")} }

ExtractActorsInputs ==
    { [fn |-> "_extract_actors",
       page |-> [releasedate |-> None, metascore |-> None, cast |-> c],
       movie_title |-> "T1"] : c \in CastSections(MaxCast) }

Components(max) == {None} \cup { Some(n) : n \in 0..max }

\* Durations: absent, the empty string, "PT30S" (no hour or minute
\* component), and PT[nH][nM] for every choice of the two components.
IsoInputs ==
    { [fn |-> "_iso_to_minutes", iso_val |-> None, h |-> None, m |-> None],
      [fn |-> "_iso_to_minutes", iso_val |-> Some(<<>>), h |-> None, m |-> None],
      [fn |-> "_iso_to_minutes",
       iso_val |-> Some(IsoToken(None, None) \o <<Piece(Some(30), "S")>>),
       h |-> None, m |-> None] }
    \cup { [fn |-> "_iso_to_minutes", iso_val |-> Some(IsoToken(h, m)),
            h |-> h, m |-> m] :
                h \in Components(MaxHours), m \in Components(MaxMinutes) }

FnSpecInit ==
    /\ SinkInit /\ CrawlInit /\ FileInit /\ PipeInit
    /\ fn_in \in { Some(x) : x \in ParseInputs \cup ExtractActorsInputs \cup IsoInputs }
    /\ fn_out = None

ApplyParse ==
    /\ fn_in # None /\ fn_out = None
    /\ fn_in[1].fn = "parse"
    /\ fn_out' = Some(parse_tasks(fn_in[1].items, fn_in[1].source))
    /\ UNCHANGED <<fn_in, sinkVars, crawlVars, fileVars, pipeVars>>

ApplyExtractActors ==
    /\ fn_in # None /\ fn_out = None
    /\ fn_in[1].fn = "_extract_actors"
    /\ fn_out' = Some(_extract_actors(fn_in[1].page, fn_in[1].movie_title))
    /\ UNCHANGED <<fn_in, sinkVars, crawlVars, fileVars, pipeVars>>

ApplyIsoToMinutes ==
    /\ fn_in # None /\ fn_out = None
    /\ fn_in[1].fn = "_iso_to_minutes"
    /\ fn_out' = Some(_iso_to_minutes(fn_in[1].iso_val))
    /\ UNCHANGED <<fn_in, sinkVars, crawlVars, fileVars, pipeVars>>

FnNext ==
    \/ ApplyParse
    \/ ApplyExtractActors
    \/ ApplyIsoToMinutes

FnSpec == FnSpecInit /\ [][FnNext]_vars

Applied(fn) == fn_in # None /\ fn_out # None /\ fn_in[1].fn = fn

Min(a, b) == IF a < b THEN a ELSE b

\* C12: for a listing of n entries parse yields min(n, 50) detail requests,
\* the j-th for the j-th entry, with that entry's title, its rating (None
\* without aggregateRating) and its duration string.
C12_FanOutTop50 ==
    ( /\ Applied("parse")
      /\ \A j \in 1..Len(fn_in[1].items) : fn_in[1].items[j].name # None )
    => LET items == fn_in[1].items
           tasks == fn_out[1]
       IN /\ Len(tasks) = Min(Len(items), 50)
          /\ \A j \in 1..Len(tasks) :
                /\ tasks[j].url = items[j].url
                /\ tasks[j].meta.title = items[j].name[1]
                /\ tasks[j].meta.rating = items[j].aggregateRating
                /\ tasks[j].meta.duration_iso = items[j].duration

\* C13: _extract_actors returns at most 3 entries, and for a cast section of
\* 3 items or more the position_order of the j-th returned entry is j, also
\* when one of the first 3 items has no name and is left out.
C13_CastNumbering ==
    Applied("_extract_actors") =>
        LET cast == fn_in[1].page.cast
            actors == fn_out[1]
        IN /\ Len(actors) <= 3
           /\ Len(cast) >= 3 =>
                 \A j \in 1..Len(actors) : actors[j].position_order = j

\* hours * 60 + minutes of the components a duration was written from, a
\* missing component counting as 0.
TotalMinutes(h, m) ==
    (IF h # None THEN h[1] * 60 ELSE 0) + (IF m # None THEN m[1] ELSE 0)

\* C14: _iso_to_minutes of PT[hH][mM] is h * 60 + m, a missing component
\* counting as 0; it is None for an absent duration and when the total is 0,
\* a duration without hour and minute component included.
C14_DurationToMinutes ==
    Applied("_iso_to_minutes") =>
        fn_out[1] =
            IF fn_in[1].iso_val = None \/ TotalMinutes(fn_in[1].h, fn_in[1].m) = 0
            THEN None
            ELSE Some(TotalMinutes(fn_in[1].h, fn_in[1].m))

\* C14 witness: "PT2H22M" has been converted, to 142.
C14_Witness ==
    /\ Applied("_iso_to_minutes")
    /\ fn_in[1].iso_val = Some(IsoToken(Some(2), Some(22)))
    /\ fn_out[1] = Some(142)

\* ------------------------------------------------------------------------
\* The crawl with a populated proxy pool
\* ------------------------------------------------------------------------
\* settings.PROXIES set to a list of one or of two proxies (the shipped
\* settings keep such a list in a comment).
Pools == { {"p1"}, {"p1", "p2"} }

StartRotator == \E pool \in Pools : start_requests(pool)

RotatorDownload == \E i \in 0..MaxRouted : process_request(i)

RotatorNext ==
    \/ StartRotator
    \/ RotatorDownload
    \/ Response
    \/ ConnectionError
    \/ parse
    \/ ParseMovie
    \/ spider_closed

RotatorSpec == Init /\ [][RotatorNext]_vars

\* C17: with a non-empty pool, a request that is sent again after a 403 or
\* 429 has been given its route by _set_proxy since the blocked response: a
\* retry in flight does not ride on the route it was blocked on without a new
\* choice having been made.
C17_BlockSignalReassignsRoute ==
    \A i \in ReqIds :
        (proxies # {} /\ req[i].st = "IN_FLIGHT" /\ req[i].retry_times >= 1)
            => req[i].fresh_route

\* C18: with two or more proxies in the pool, the request process_exception
\* hands back after a connection-level error carries a proxy other than the
\* one the failed fetch used.
C18_FailurePicksDifferentRoute ==
    [][ \A i \in ReqIds :
          ( /\ Cardinality(proxies) >= 2
            /\ req[i].st = "IN_FLIGHT"
            /\ req'[i].st \in {"PENDING", "DROPPED"}
            /\ req'[i].retry_times = req[i].retry_times )
          => req'[i].proxy # req[i].proxy ]_vars

\* A step in which _set_proxy runs for request i: its first send, or the
\* hand-back by process_exception.
SetProxyStep(i) ==
    \/ req[i].st = "PENDING" /\ req[i].proxy = None /\ req'[i].st = "IN_FLIGHT"
    \/ /\ req[i].st = "IN_FLIGHT"
       /\ req'[i].st \in {"PENDING", "DROPPED"}
       /\ req'[i].retry_times = req[i].retry_times

\* C19: current_proxy starts as None and is always None or a proxy of the
\* pool; it changes only in a step in which _set_proxy runs for a request,
\* and then to a route other than the previous one; after every run of
\* _set_proxy with a non-empty pool it equals the proxy put on that request;
\* when the public-IP lookup fails the request still carries the chosen
\* proxy and current_proxy is that proxy.
C19_EgressStateTransitions ==
    /\ current_proxy = None
    /\ [](current_proxy = None \/ current_proxy[1] \in proxies)
    /\ [][ /\ current_proxy' # current_proxy =>
                \E i \in ReqIds : SetProxyStep(i) /\ req'[i].proxy = current_proxy'
           /\ \A i \in ReqIds :
                (SetProxyStep(i) /\ proxies # {}) =>
                    /\ req'[i].proxy # None
                    /\ current_proxy' = req'[i].proxy
           /\ (log'.ip_lookup # log.ip_lookup /\ log'.ip_lookup = "failed") =>
                /\ current_proxy' # current_proxy
                /\ \E i \in ReqIds : SetProxyStep(i) /\ req'[i].proxy = current_proxy'
         ]_vars

\* C19 witness: with two proxies in the pool, a detail request has been
\* handed back by process_exception carrying the proxy chosen there,
\* current_proxy is that proxy, and the public-IP lookup made at the last
\* change of route failed.
C19_Witness ==
    /\ proxies = {"p1", "p2"}
    /\ current_proxy = Some("p2")
    /\ log.ip_lookup = "failed"
    /\ req[1].st = "DROPPED"
    /\ req[1].proxy = Some("p2")
    /\ req[1].retry_times = 0

\* C16: when UserAgent() cannot be built, every request that is sent carries
\* a User-Agent taken from the fallback list, and every entry of a
\* well-formed index listing still gets its detail request.
C16_IdentityNeverFails ==
    ua = "fallback" =>
        /\ \A i \in ReqIds :
              req[i].st = "IN_FLIGHT" => req[i].user_agent = Some("fallback")
        /\ (req[0].parsed /\ req[0].response[1].kind = "list") =>
              \A i \in 1..req[0].response[1].n : req[i].st # "NONE"

\* C20: with an empty pool no request ever carries a proxy, current_proxy
\* stays None, no public-IP lookup is made, and the empty-pool warning has
\* been logged exactly once since the middleware was built.
C20_EmptyPoolDisablesRotation ==
    (phase # "idle" /\ proxies = {}) =>
        /\ \A i \in ReqIds : req[i].proxy = None /\ ~req[i].fresh_route
        /\ current_proxy = None
        /\ log.ip_lookup = "none"
        /\ log.empty_pool_warnings = 1

\* C20 witness: with the empty pool a request has been sent, has failed with
\* a connection-level error and waits to be sent again while another request
\* is in flight.
C20_Witness ==
    /\ proxies = {}
    /\ phase = "running"
    /\ \E i, j \in ReqIds :
          /\ req[i].st = "PENDING" /\ req[i].resubmits >= 1
          /\ req[j].st = "IN_FLIGHT"

\* ------------------------------------------------------------------------
\* Further properties of the relational sink
\* ------------------------------------------------------------------------
\* C21: every row of actores references a row of peliculas, in the session's
\* view and in the committed tables alike, and a cast row is created only by
\* the write of an ActorItem and attached to a catalog row whose titulo is
\* that item's movie_title (any one of them when several rows share the
\* title).
C21_CastReferencesCatalog ==
    /\ [](/\ \A a \in actores : \E m \in peliculas : m.id = a.pelicula_id
          /\ \A a \in committed.actores :
                \E m \in committed.peliculas : m.id = a.pelicula_id)
    /\ [][ \A a \in actores' \ actores :
              /\ returned'.kind = "ActorItem"
              /\ \E m \in peliculas' :
                    m.id = a.pelicula_id /\ m.titulo = returned'.movie_title
         ]_vars

\* C21 witness: two catalog rows share a title (the year is absent in one)
\* and each of them has a cast row attached.
C21_Witness ==
    \E m1, m2 \in peliculas :
        /\ m1.titulo = m2.titulo
        /\ m1.anio = None /\ m2.anio # None
        /\ \E a1, a2 \in actores : a1.pelicula_id = m1.id /\ a2.pelicula_id = m2.id

\* ------------------------------------------------------------------------
\* The two item pipelines in a chain, on arbitrary items
\* ------------------------------------------------------------------------
\* An item goes down ITEM_PIPELINES: CsvExportPipeline.process_item (300),
\* then PostgresPipeline.process_item (400) on what the first returned.
ChainWrite ==
    /\ csv_state = "open"
    /\ session = "open"
    /\ Len(handed.csv) < MaxChain
    /\ \E item \in FileItems :
         LET passed == csv_process_item_returns(item) IN
         /\ csv_process_item(item)
         /\ process_item(passed)
         /\ handed' = [csv |-> Append(handed.csv, [of |-> 0, item |-> item]),
                       postgres |-> Append(handed.postgres, [of |-> 0, item |-> passed])]
    /\ UNCHANGED <<delivered, fnVars>>

\* One run: the engine opens the pipelines in ITEM_PIPELINES order before
\* the first item, and closes them after the last.
ChainOpenCsv == csv_state = "new" /\ FileOpen

ChainOpenPostgres == csv_state = "open" /\ handed.csv = <<>> /\ open_spider

ChainClosePostgres == close_spider

ChainCloseCsv == session = "closed" /\ FileClose

ChainNext ==
    \/ ChainOpenCsv
    \/ ChainOpenPostgres
    \/ ChainWrite
    \/ ChainClosePostgres
    \/ ChainCloseCsv

ChainSpec == Init /\ [][ChainNext]_vars

\* C22: PostgresPipeline is handed exactly the items CsvExportPipeline was
\* handed, unchanged and in the same order, and what PostgresPipeline
\* returned last is the item it was handed last, whatever either pipeline
\* did with the items (written, ignored for its type, cast write skipped for
\* a missing catalog row, insert failed and rolled back).
C22_SinkPassThrough ==
    /\ handed.postgres = handed.csv
    /\ Len(handed.postgres) = nWrites
    /\ outcome # "none" =>
          returned = handed.postgres[Len(handed.postgres)].item

\* C22 witness: an item of another type, a cast entry without catalog row
\* and a catalog entry whose insert fails have gone down the chain.
C22_Witness ==
    /\ Len(handed.postgres) = 3
    /\ handed.postgres[1].item = OtherItem
    /\ handed.postgres[2].item.kind = "ActorItem"
    /\ handed.postgres[3].item.kind = "MovieItem"
    /\ outcome = "error"
    /\ peliculas = {}
    /\ Len(actor_file) = 2

====
